---- MODULE Spec2Model ----
(***************************************************************************)
(* tools/purge_executions.py: the purge of old ActionExecution documents   *)
(* and their LiveAction documents.  The store is the pair of collections   *)
(* (executions, liveactions); a run of purge_executions selects the        *)
(* candidates (lines 121-126) and then feeds each through _purge_models    *)
(* (lines 71-96), whose three store calls are the three steps of the       *)
(* model.  Every store call may fail, as the bare excepts of the source    *)
(* expect.  main (lines 136-154) wraps one run between common_setup and    *)
(* common_teardown.  The last part models RoleDefinitionFileFormatAPI's    *)
(* validate of st2common/models/api/rbac.py (lines 125-159).               *)
(***************************************************************************)
EXTENDS Integers, Sequences, FiniteSets, TLC

\* Timestamps are 0..MaxTime and the cutoff of a run is MaxTime, so that the
\* timestamps of a document fall on either side of it.  No further run starts
\* once DELETED_COUNT, which the process never resets, has reached MaxCount.
MaxTime == 1
MaxCount == 2

\* A role definition has at most MaxGrants permission grants.
MaxGrants == 2

\* Python's None: an absent argument, a null field, a key a dict lacks.
None == "None"

\* The documents of the ActionExecution collection.
ExecIds == {"e1", "e2"}

\* The LiveAction document an execution embeds a copy of has its own id.
LiveactionIdOf(e) == IF e = "e1" THEN "l1" ELSE "l2"

LiveactionIds == {LiveactionIdOf(e) : e \in ExecIds}

\* The position of a document in its collection.
Rank(e) == IF e = "e1" THEN 1 ELSE 2

\* The action-ref arguments: absent, the default '', and one action's ref.
ActionRefs == {None, "", "core.local"}

Timestamps == 0..MaxTime

IN_PROGRESS_STATES ==
    {"running", "scheduled", "requested", "canceling", "delayed"}

\* Statuses outside IN_PROGRESS_STATES (action_constants is not in src/).
COMPLETED_STATES == {"succeeded"}

Statuses == IN_PROGRESS_STATES \cup COMPLETED_STATES

Actions == {"core.local", "core.remote"}

\* execution_db.liveaction: null, or a dict with 'action' and (possibly) 'id'.
NullLiveaction == [null |-> TRUE, id |-> None, action |-> None]

LiveactionFields(e) ==
    {NullLiveaction}
    \cup [null : {FALSE}, id : {None, LiveactionIdOf(e)}, action : Actions]

ExecutionDocs(e) ==
    [id : {e}, status : Statuses, start_timestamp : Timestamps,
     end_timestamp : Timestamps, liveaction : LiveactionFields(e)]

\* The timestamp argument when it is not given (line 110).
NoTimestamp == 0 - 1

VARIABLES
    executions,            \* ActionExecution collection: id -> document, for the ids present
    liveactions,           \* LiveAction collection: the ids present
    DELETED_COUNT,         \* the module global of line 41
    pc,                    \* "idle", "purge", "delete_execution",
                           \* "delete_liveaction", "raised"
    timestamp,             \* purge_executions' arguments in the current run
    action_ref,
    executions_to_delete,  \* line 124: the materialized candidate list
    idx,                   \* position of the for loop of line 129
    liveaction_db,         \* _purge_models' local of lines 77-79
    log,                   \* the LOG calls of the current run
    calls,                 \* the store calls of the current run, with outcome
    selected_from,         \* the ActionExecution collection as line 123 read it
    count_at_entry,        \* DELETED_COUNT as _purge_models was last entered
    rerun,                 \* the current run repeats the arguments of the run
                           \* before it, which deleted every execution it listed
    main_pc,               \* "direct" (purge_executions is called directly),
                           \* or main's position: "start", "setup_done",
                           \* "purging", "exited"
    connection,            \* "none", "open" (common_setup), "closed" (common_teardown)
    exit_code,             \* how main ended: "running", "returned 1",
                           \* "returned None", "raised"
    written,               \* <<id, status>>: the last status another process
                           \* has written to an execution since the current
                           \* run selected
    permission_grants,     \* rbac.py: the permission_grants of the role definition
    validate_result        \* rbac.py: how validate ended ("pending", "ValueError",
                           \* "returned") and the value it returned

main_vars == <<main_pc, connection, exit_code>>

rbac_vars == <<permission_grants, validate_result>>

vars == <<executions, liveactions, DELETED_COUNT, pc, timestamp, action_ref,
          executions_to_delete, idx, liveaction_db, log, calls, selected_from,
          count_at_entry, rerun, main_pc, connection, exit_code, written,
          permission_grants, validate_result>>

----------------------------------------------------------------------------
\* query with end_timestamp__lte in place of end_timestamp__lt.
query_lte(store, ts) ==
    {e \in DOMAIN store : store[e].end_timestamp <= ts}

\* query paginated (the XXX of line 121) and read for its first page only.
query_first_page(store, ts) ==
    LET all == {e \in DOMAIN store : store[e].end_timestamp < ts}
    IN {e \in all : \A x \in all : Rank(e) <= Rank(x)}

\* Line 122-123: ActionExecution.query(end_timestamp__lt=timestamp).
query(store, ts) ==
    {e \in DOMAIN store : store[e].end_timestamp < ts}

\* Line 104: execution_db.liveaction['action'] raises on a null liveaction;
\* it is evaluated for every record that passed line 100 when action_ref # ''.
should_delete_raises(execution_db, ref) ==
    /\ execution_db.status \notin IN_PROGRESS_STATES
    /\ ref # ""
    /\ execution_db.liveaction.null

\* _should_delete testing the status against LIVEACTION_STATUS_RUNNING alone.
should_delete_running_only(execution_db, ref, ts) ==
    IF execution_db.status = "running"
    THEN FALSE
    ELSE IF ref # ""
         THEN /\ ~execution_db.liveaction.null
              /\ execution_db.liveaction.action = ref
              /\ execution_db.start_timestamp < ts
         ELSE execution_db.start_timestamp < ts

\* _should_delete with `or` for the `and` of line 104.
should_delete_or(execution_db, ref, ts) ==
    IF execution_db.status \in IN_PROGRESS_STATES
    THEN FALSE
    ELSE IF ref # ""
         THEN \/ /\ ~execution_db.liveaction.null
                 /\ execution_db.liveaction.action = ref
              \/ execution_db.start_timestamp < ts
         ELSE execution_db.start_timestamp < ts

\* Lines 99-107.
should_delete(execution_db, ref, ts) ==
    IF execution_db.status \in IN_PROGRESS_STATES
    THEN FALSE
    ELSE IF ref # ""
         THEN /\ ~execution_db.liveaction.null
              /\ execution_db.liveaction.action = ref
              /\ execution_db.start_timestamp < ts
         ELSE execution_db.start_timestamp < ts

\* The order in which a query result is iterated: the collection's own.
RECURSIVE InOrder(_)
InOrder(S) ==
    IF S = {} THEN <<>>
    ELSE LET first == CHOOSE e \in S : \A x \in S : Rank(e) <= Rank(x)
         IN <<first>> \o InOrder(S \ {first})

\* The process before its first run: line 41 and no call made yet.
NoRunYet ==
    /\ DELETED_COUNT = 0
    /\ pc = "idle"
    /\ timestamp = NoTimestamp
    /\ action_ref = None
    /\ executions_to_delete = <<>>
    /\ idx = 1
    /\ liveaction_db = None
    /\ log = <<>>
    /\ calls = <<>>
    /\ selected_from = executions
    /\ count_at_entry = 0
    /\ rerun = FALSE
    /\ written = {}

\* validate has not ended.
Pending == [status |-> "pending", value |-> <<>>]

\* No role definition is being validated.
NoValidate ==
    /\ permission_grants = <<>>
    /\ validate_result = Pending

\* purge_executions is called directly, as a library function: any store.
Init ==
    /\ executions \in [ExecIds -> UNION {ExecutionDocs(e) : e \in ExecIds}]
    /\ \A e \in ExecIds : executions[e].id = e
    /\ liveactions \in SUBSET {executions[e].liveaction.id :
                                 e \in {x \in ExecIds : executions[x].liveaction.id # None}}
    /\ NoRunYet
    /\ main_pc = "direct"
    /\ connection = "none"
    /\ exit_code = "running"
    /\ NoValidate

\* purge_executions deleting while it filters: the first record that passes
\* _should_delete is deleted before the rest of the result is decided.
purge_executions_select_and_delete(ts, ref) ==
    /\ pc = "idle"
    /\ DELETED_COUNT < MaxCount
    /\ LET a == IF ref = None THEN "" ELSE ref
           result == query(executions, ts)
       IN /\ timestamp' = ts
          /\ action_ref' = a
          /\ selected_from' = executions
          /\ rerun' = FALSE
          /\ idx' = 1
          /\ liveaction_db' = None
          /\ IF \E e \in result : should_delete_raises(executions[e], a)
             THEN /\ pc' = "raised"
                  /\ executions_to_delete' = <<>>
                  /\ executions' = executions
                  /\ calls' = <<<<"ActionExecution.query", None, TRUE>>>>
                  /\ log' = <<<<"info", "purging_older_than", ts>>>>
             ELSE LET order == InOrder({e \in result :
                                          should_delete(executions[e], a, ts)})
                  IN
                  /\ executions_to_delete' = [i \in DOMAIN order |-> executions[order[i]]]
                  /\ executions' = IF order = <<>> THEN executions
                                   ELSE [e \in DOMAIN executions \ {order[1]} |-> executions[e]]
                  /\ calls' = IF order = <<>>
                              THEN <<<<"ActionExecution.query", None, TRUE>>>>
                              ELSE <<<<"ActionExecution.query", None, TRUE>>,
                                     <<"ActionExecution.delete", order[1], TRUE>>>>
                  /\ pc' = "purge"
                  /\ log' = <<<<"info", "purging_older_than", ts>>,
                              <<"info", "total_to_delete", Len(order)>>>>
    /\ UNCHANGED <<liveactions, DELETED_COUNT, count_at_entry>>

\* Lines 110-126 with a timestamp: the arguments, the query, the list
\* comprehension (which raises if _should_delete does) and the two LOG.info.
purge_executions_select(ts, ref) ==
    /\ pc = "idle"
    /\ DELETED_COUNT < MaxCount
    /\ LET a == IF ref = None THEN "" ELSE ref
           result == query(executions, ts)
       IN /\ timestamp' = ts
          /\ action_ref' = a
          /\ selected_from' = executions
          /\ rerun' = (/\ Len(log) >= 2
                       /\ timestamp = ts
                       /\ action_ref = a
                       /\ \A i \in DOMAIN executions_to_delete :
                             executions_to_delete[i].id \notin DOMAIN executions)
          /\ calls' = <<<<"ActionExecution.query", None, TRUE>>>>
          /\ idx' = 1
          /\ liveaction_db' = None
          /\ IF \E e \in result : should_delete_raises(executions[e], a)
             THEN /\ pc' = "raised"
                  /\ executions_to_delete' = <<>>
                  /\ log' = <<<<"info", "purging_older_than", ts>>>>
             ELSE LET order == InOrder({e \in result :
                                          should_delete(executions[e], a, ts)})
                  IN
                  /\ executions_to_delete' = [i \in DOMAIN order |-> executions[order[i]]]
                  /\ pc' = "purge"
                  /\ log' = <<<<"info", "purging_older_than", ts>>,
                              <<"info", "total_to_delete", Len(order)>>>>
    /\ UNCHANGED <<executions, liveactions, DELETED_COUNT, count_at_entry>>

\* The candidate _purge_models is working on.
execution_db == executions_to_delete[idx]

\* Line 79: LiveAction.get_by_id raises when no document has the id (or when
\* the store fails); ok is the store's answer for a document that is there.
LiveAction_get_by_id(liveaction_id, ok) ==
    IF ok /\ liveaction_id \in liveactions THEN liveaction_id ELSE None

\* ActionExecution.delete applied to the whole collection.
ActionExecution_delete_all(store, id) ==
    [e \in {} |-> store[e]]

\* Line 87: ActionExecution.delete removes the document.
ActionExecution_delete(store, id) ==
    [e \in DOMAIN store \ {id} |-> store[e]]

\* Line 94: LiveAction.delete removes the document.
LiveAction_delete(store, id) == store \ {id}

\* Lines 129-130 and 72-84: the next candidate enters _purge_models; reading
\* the id of a null liveaction raises at line 72, outside every try.
purge_models_lookup(ok) ==
    /\ pc = "purge"
    /\ idx <= Len(executions_to_delete)
    /\ count_at_entry' = DELETED_COUNT
    /\ IF execution_db.liveaction.null
       THEN /\ ok
            /\ pc' = "raised"
            /\ UNCHANGED <<DELETED_COUNT, liveaction_db, log, calls>>
       ELSE LET liveaction_id == execution_db.liveaction.id
                found == LiveAction_get_by_id(liveaction_id, ok)
                log1 == IF liveaction_id = None
                        THEN Append(log, <<"error", "invalid_liveaction_id", execution_db.id>>)
                        ELSE log
            IN /\ ok => liveaction_id \in liveactions
               /\ liveaction_db' = found
               /\ calls' = Append(calls, <<"LiveAction.get_by_id", execution_db.id, found # None>>)
               /\ IF found # None
                  THEN /\ DELETED_COUNT' = DELETED_COUNT + 1
                       /\ log' = log1
                  ELSE /\ DELETED_COUNT' = DELETED_COUNT
                       /\ log' = Append(log1, <<"exception", "liveaction_not_found",
                                                execution_db.id>>)
               /\ pc' = "delete_execution"
    /\ UNCHANGED <<executions, liveactions, timestamp, action_ref,
                   executions_to_delete, idx, selected_from, rerun>>

\* Lines 86-96 with the liveaction delete after the try, not in its else.
purge_models_delete_execution_unguarded(ok) ==
    /\ pc = "delete_execution"
    /\ calls' = Append(calls, <<"ActionExecution.delete", execution_db.id, ok>>)
    /\ IF ok
       THEN /\ executions' = ActionExecution_delete(executions, execution_db.id)
            /\ log' = log
       ELSE /\ executions' = executions
            /\ log' = Append(log, <<"exception", "execution_delete_failed", execution_db.id>>)
    /\ IF liveaction_db # None
       THEN pc' = "delete_liveaction" /\ idx' = idx
       ELSE pc' = "purge" /\ idx' = idx + 1
    /\ UNCHANGED <<liveactions, DELETED_COUNT, timestamp, action_ref,
                   executions_to_delete, liveaction_db, selected_from,
                   count_at_entry, rerun>>

\* Lines 86-92 with the candidate read again before its delete, and skipped
\* if its status is now an in-progress one.
purge_models_delete_execution_recheck(ok) ==
    /\ pc = "delete_execution"
    /\ IF /\ execution_db.id \in DOMAIN executions
          /\ executions[execution_db.id].status \in IN_PROGRESS_STATES
       THEN /\ ok
            /\ UNCHANGED <<executions, log, calls>>
            /\ pc' = "purge"
            /\ idx' = idx + 1
       ELSE /\ calls' = Append(calls, <<"ActionExecution.delete", execution_db.id, ok>>)
            /\ IF ok
               THEN /\ executions' = ActionExecution_delete(executions, execution_db.id)
                    /\ log' = log
                    /\ IF liveaction_db # None
                       THEN pc' = "delete_liveaction" /\ idx' = idx
                       ELSE pc' = "purge" /\ idx' = idx + 1
               ELSE /\ executions' = executions
                    /\ log' = Append(log, <<"exception", "execution_delete_failed",
                                            execution_db.id>>)
                    /\ pc' = "purge"
                    /\ idx' = idx + 1
    /\ UNCHANGED <<liveactions, DELETED_COUNT, timestamp, action_ref,
                   executions_to_delete, liveaction_db, selected_from,
                   count_at_entry, rerun>>

\* Lines 86-92: the execution document is deleted, or the store refuses.
purge_models_delete_execution(ok) ==
    /\ pc = "delete_execution"
    /\ calls' = Append(calls, <<"ActionExecution.delete", execution_db.id, ok>>)
    /\ IF ok
       THEN /\ executions' = ActionExecution_delete(executions, execution_db.id)
            /\ log' = log
            /\ IF liveaction_db # None
               THEN pc' = "delete_liveaction" /\ idx' = idx
               ELSE pc' = "purge" /\ idx' = idx + 1
       ELSE /\ executions' = executions
            /\ log' = Append(log, <<"exception", "execution_delete_failed", execution_db.id>>)
            /\ pc' = "purge"
            /\ idx' = idx + 1
    /\ UNCHANGED <<liveactions, DELETED_COUNT, timestamp, action_ref,
                   executions_to_delete, liveaction_db, selected_from,
                   count_at_entry, rerun>>

\* Lines 93-96 with the delete tried again after a failure.
purge_models_delete_liveaction_retry(ok) ==
    /\ pc = "delete_liveaction"
    /\ calls' = Append(calls, <<"LiveAction.delete", execution_db.id, ok>>)
    /\ IF ok
       THEN /\ liveactions' = LiveAction_delete(liveactions, liveaction_db)
            /\ log' = log
            /\ pc' = "purge"
            /\ idx' = idx + 1
       ELSE /\ liveactions' = liveactions
            /\ log' = Append(log, <<"exception", "zombie_liveaction", execution_db.id>>)
            /\ pc' = "delete_liveaction"
            /\ idx' = idx
    /\ UNCHANGED <<executions, DELETED_COUNT, timestamp, action_ref,
                   executions_to_delete, liveaction_db, selected_from,
                   count_at_entry, rerun>>

\* Lines 93-96: the liveaction document is deleted, or is left as a zombie.
purge_models_delete_liveaction(ok) ==
    /\ pc = "delete_liveaction"
    /\ calls' = Append(calls, <<"LiveAction.delete", execution_db.id, ok>>)
    /\ IF ok
       THEN /\ liveactions' = LiveAction_delete(liveactions, liveaction_db)
            /\ log' = log
       ELSE /\ liveactions' = liveactions
            /\ log' = Append(log, <<"exception", "zombie_liveaction", execution_db.id>>)
    /\ pc' = "purge"
    /\ idx' = idx + 1
    /\ UNCHANGED <<executions, DELETED_COUNT, timestamp, action_ref,
                   executions_to_delete, liveaction_db, selected_from,
                   count_at_entry, rerun>>

\* Lines 132-133: the loop is over; the count is logged and the run returns.
purge_executions_report ==
    /\ pc = "purge"
    /\ idx > Len(executions_to_delete)
    /\ log' = Append(log, <<"info", "total_deleted", DELETED_COUNT>>)
    /\ pc' = "idle"
    /\ UNCHANGED <<executions, liveactions, DELETED_COUNT, timestamp, action_ref,
                   executions_to_delete, idx, liveaction_db, calls, selected_from,
                   count_at_entry, rerun>>

\* purge_executions testing the timestamp after the query of line 123.
purge_executions_no_timestamp_after_query ==
    /\ pc = "idle"
    /\ timestamp' = NoTimestamp
    /\ action_ref' = None
    /\ executions_to_delete' = <<>>
    /\ idx' = 1
    /\ liveaction_db' = None
    /\ log' = <<<<"error", "specify_valid_timestamp", None>>>>
    /\ calls' = <<<<"ActionExecution.query", None, TRUE>>>>
    /\ selected_from' = executions
    /\ rerun' = FALSE
    /\ UNCHANGED <<executions, liveactions, DELETED_COUNT, pc, count_at_entry>>

\* Lines 110-113: without a timestamp the call logs an error and returns.
purge_executions_no_timestamp ==
    /\ pc = "idle"
    /\ timestamp' = NoTimestamp
    /\ action_ref' = None
    /\ executions_to_delete' = <<>>
    /\ idx' = 1
    /\ liveaction_db' = None
    /\ log' = <<<<"error", "specify_valid_timestamp", None>>>>
    /\ calls' = <<>>
    /\ selected_from' = executions
    /\ rerun' = FALSE
    /\ UNCHANGED <<executions, liveactions, DELETED_COUNT, pc, count_at_entry>>

\* Lines 110-123 with a timestamp and a store that fails the query: the
\* exception of line 123 is caught nowhere and leaves purge_executions.
purge_executions_query_fails(ts, ref) ==
    /\ pc = "idle"
    /\ DELETED_COUNT < MaxCount
    /\ timestamp' = ts
    /\ action_ref' = (IF ref = None THEN "" ELSE ref)
    /\ executions_to_delete' = <<>>
    /\ idx' = 1
    /\ liveaction_db' = None
    /\ log' = <<<<"info", "purging_older_than", ts>>>>
    /\ calls' = <<<<"ActionExecution.query", None, FALSE>>>>
    /\ selected_from' = executions
    /\ rerun' = FALSE
    /\ pc' = "raised"
    /\ UNCHANGED <<executions, liveactions, DELETED_COUNT, count_at_entry>>

\* purge_executions called directly with a timestamp, any number of times in
\* one process, on a store that answers the query.
Next ==
    \/ /\ main_pc = "direct"
       /\ \E ts \in {MaxTime}, ref \in ActionRefs : purge_executions_select(ts, ref)
       /\ written' = {}
       /\ UNCHANGED <<main_vars, rbac_vars>>
    \/ /\ \E ok \in BOOLEAN : purge_models_lookup(ok)
       /\ UNCHANGED <<main_vars, rbac_vars, written>>
    \/ /\ \E ok \in BOOLEAN : purge_models_delete_execution(ok)
       /\ UNCHANGED <<main_vars, rbac_vars, written>>
    \/ /\ \E ok \in BOOLEAN : purge_models_delete_liveaction(ok)
       /\ UNCHANGED <<main_vars, rbac_vars, written>>
    \/ /\ purge_executions_report
       /\ UNCHANGED <<main_vars, rbac_vars, written>>

Spec == Init /\ [][Next]_vars

----------------------------------------------------------------------------
\* main, and purge_executions with every outcome of its first lines.

\* Documents older than the cutoff, of one terminal and one in-progress status.
OldDocs(e) ==
    [id : {e}, status : {"succeeded", "running"}, start_timestamp : {0},
     end_timestamp : {0}, liveaction : LiveactionFields(e)]

\* The process is either a caller of purge_executions or about to run main.
InitMain ==
    /\ executions \in [ExecIds -> UNION {OldDocs(e) : e \in ExecIds}]
    /\ \A e \in ExecIds : executions[e].id = e
    /\ liveactions \in SUBSET {executions[e].liveaction.id :
                                 e \in {x \in ExecIds : executions[x].liveaction.id # None}}
    /\ NoRunYet
    /\ main_pc \in {"direct", "start"}
    /\ connection = "none"
    /\ exit_code = "running"
    /\ NoValidate

\* Lines 137-138: common_setup(setup_db=True) parses the options and connects.
main_setup ==
    /\ main_pc = "start"
    /\ main_pc' = "setup_done"
    /\ connection' = "open"
    /\ UNCHANGED <<executions, liveactions, DELETED_COUNT, pc, timestamp, action_ref,
                   executions_to_delete, idx, liveaction_db, log, calls,
                   selected_from, count_at_entry, rerun, exit_code, written>>

\* Lines 141-146: cfg.CONF.timestamp is None (the option's default).
main_no_timestamp ==
    /\ main_pc = "setup_done"
    /\ log' = Append(log, <<"error", "supply_timestamp", None>>)
    /\ exit_code' = "returned 1"
    /\ main_pc' = "exited"
    /\ UNCHANGED <<executions, liveactions, DELETED_COUNT, pc, timestamp, action_ref,
                   executions_to_delete, idx, liveaction_db, calls,
                   selected_from, count_at_entry, rerun, connection, written>>

\* Lines 141-152: the timestamp option is given and parsed and
\* purge_executions is entered; the query answers or fails.
main_purge_executions(ts, ref) ==
    /\ main_pc = "setup_done"
    /\ \/ purge_executions_select(ts, ref)
       \/ purge_executions_query_fails(ts, ref)
    /\ main_pc' = "purging"
    /\ written' = {}
    /\ UNCHANGED <<connection, exit_code>>

\* Lines 152-154 and 157: purge_executions returned; common_teardown, and
\* main falls off its end, which sys.exit takes for success.
main_teardown ==
    /\ main_pc = "purging"
    /\ pc = "idle"
    /\ connection' = "closed"
    /\ exit_code' = "returned None"
    /\ main_pc' = "exited"
    /\ UNCHANGED <<executions, liveactions, DELETED_COUNT, pc, timestamp, action_ref,
                   executions_to_delete, idx, liveaction_db, log, calls,
                   selected_from, count_at_entry, rerun, written>>

\* Line 152: the exception that left purge_executions leaves main as well;
\* no try surrounds the call.
main_raises ==
    /\ main_pc = "purging"
    /\ pc = "raised"
    /\ exit_code' = "raised"
    /\ main_pc' = "exited"
    /\ UNCHANGED <<executions, liveactions, DELETED_COUNT, pc, timestamp, action_ref,
                   executions_to_delete, idx, liveaction_db, log, calls,
                   selected_from, count_at_entry, rerun, connection, written>>

NextMain ==
    \/ /\ main_pc = "direct"
       /\ \E ts \in {MaxTime}, ref \in ActionRefs : purge_executions_select(ts, ref)
       /\ written' = {}
       /\ UNCHANGED <<main_vars, rbac_vars>>
    \/ /\ main_pc = "direct"
       /\ purge_executions_no_timestamp
       /\ written' = {}
       /\ UNCHANGED <<main_vars, rbac_vars>>
    \/ /\ main_pc = "direct"
       /\ \E ts \in {MaxTime}, ref \in ActionRefs : purge_executions_query_fails(ts, ref)
       /\ written' = {}
       /\ UNCHANGED <<main_vars, rbac_vars>>
    \/ /\ \E ok \in BOOLEAN : purge_models_lookup(ok)
       /\ UNCHANGED <<main_vars, rbac_vars, written>>
    \/ /\ \E ok \in BOOLEAN : purge_models_delete_execution(ok)
       /\ UNCHANGED <<main_vars, rbac_vars, written>>
    \/ /\ \E ok \in BOOLEAN : purge_models_delete_liveaction(ok)
       /\ UNCHANGED <<main_vars, rbac_vars, written>>
    \/ /\ purge_executions_report
       /\ UNCHANGED <<main_vars, rbac_vars, written>>
    \/ main_setup /\ UNCHANGED rbac_vars
    \/ main_no_timestamp /\ UNCHANGED rbac_vars
    \/ /\ \E ts \in {MaxTime}, ref \in ActionRefs \ {None} : main_purge_executions(ts, ref)
       /\ UNCHANGED rbac_vars
    \/ main_teardown /\ UNCHANGED rbac_vars
    \/ main_raises /\ UNCHANGED rbac_vars

SpecMain == InitMain /\ [][NextMain]_vars

----------------------------------------------------------------------------
\* What the claims speak of.

\* The ids of the candidate list.
Candidates == {executions_to_delete[i].id : i \in DOMAIN executions_to_delete}

\* The current run got past its selection: line 126 logged the list's length.
ListBuilt == Len(log) >= 2

\* The current run returned from line 133.
RunReturned == pc = "idle" /\ Len(log) > 0

\* The execution documents the current run has deleted.
DeletedByRun == DOMAIN selected_from \ DOMAIN executions

InProgress(d) ==
    d.status \in {"running", "scheduled", "requested", "canceling", "delayed"}

\* The action-ref filter of the run rejects the document.
FilterExcludes(d) == action_ref # "" /\ d.liveaction.action # action_ref

\* The store calls of the run made for candidate e, of one kind and outcome.
CallsOf(op, e, ok) ==
    {i \in DOMAIN calls : calls[i][1] = op /\ calls[i][2] = e /\ calls[i][3] = ok}

\* The log lines of the run about candidate e, of one kind.
LogsOf(msg, e) ==
    {i \in DOMAIN log : log[i][2] = msg /\ log[i][3] = e}

\* The last store call of the run.
LastCall == calls[Len(calls)]

\* C1: an execution whose status is an in-progress state when the run selects
\* is not in the candidate list and is still in the store, whatever its age.
C1_InProgressNeverPurged ==
    \A e \in DOMAIN selected_from :
        InProgress(selected_from[e]) => e \notin Candidates /\ e \in DOMAIN executions

\* C1: a run has returned that deleted an execution and kept an in-progress
\* one whose two timestamps are older than the cutoff.
C1_Witness ==
    /\ RunReturned
    /\ DeletedByRun # {}
    /\ \E e \in DOMAIN executions :
          /\ InProgress(executions[e])
          /\ executions[e].end_timestamp < timestamp
          /\ executions[e].start_timestamp < timestamp

\* C4 as claimed: the end timestamp decides: no execution with end timestamp
\* >= cutoff is a candidate, and every terminal one with end timestamp <
\* cutoff is, unless the action-ref filter excludes it.
C4_EndTimestampDecides ==
    ListBuilt =>
        \A e \in DOMAIN selected_from :
            LET d == selected_from[e]
            IN /\ d.end_timestamp >= timestamp => e \notin Candidates
               /\ (d.end_timestamp < timestamp /\ ~InProgress(d) /\ ~FilterExcludes(d))
                      => e \in Candidates

\* C4 as amended: both timestamps decide: no execution with end or start
\* timestamp >= cutoff is a candidate, and every terminal one with both
\* timestamps < cutoff is, unless the action-ref filter excludes it.
C4_BothTimestampsDecide ==
    ListBuilt =>
        \A e \in DOMAIN selected_from :
            LET d == selected_from[e]
            IN /\ d.end_timestamp >= timestamp => e \notin Candidates
               /\ d.start_timestamp >= timestamp => e \notin Candidates
               /\ (/\ d.end_timestamp < timestamp
                   /\ d.start_timestamp < timestamp
                   /\ ~InProgress(d)
                   /\ ~FilterExcludes(d))
                      => e \in Candidates

\* C4: a selection that took one execution and left a terminal one that ended
\* before the cutoff and started at or after it.
C4_Witness ==
    /\ ListBuilt
    /\ Candidates # {}
    /\ \E e \in DOMAIN selected_from \ Candidates :
          LET d == selected_from[e]
          IN /\ d.end_timestamp < timestamp
             /\ d.start_timestamp >= timestamp
             /\ ~InProgress(d)
             /\ ~FilterExcludes(d)

\* C5: with a non-empty action-ref every candidate, and every execution the
\* run deletes, has that action; with the default action-ref every terminal
\* execution older than the cutoff is a candidate, whatever its action.
C5_ActionRefFilter ==
    ListBuilt =>
        /\ action_ref # "" =>
              /\ \A i \in DOMAIN executions_to_delete :
                    executions_to_delete[i].liveaction.action = action_ref
              /\ \A e \in DeletedByRun : selected_from[e].liveaction.action = action_ref
        /\ action_ref = "" =>
              \A e \in DOMAIN selected_from :
                  LET d == selected_from[e]
                  IN (/\ ~InProgress(d)
                      /\ d.end_timestamp < timestamp
                      /\ d.start_timestamp < timestamp) => e \in Candidates

\* C5: a run for "core.local" has deleted an execution of that action and
\* has left an old terminal execution of another action out of its list.
C5_Witness ==
    /\ RunReturned
    /\ action_ref = "core.local"
    /\ DeletedByRun # {}
    /\ \E e \in DOMAIN executions \ Candidates :
          /\ ~InProgress(executions[e])
          /\ executions[e].end_timestamp < timestamp
          /\ executions[e].start_timestamp < timestamp
          /\ executions[e].liveaction.action = "core.remote"

\* The candidate _purge_models worked on last, once the loop has moved on.
Processed == executions_to_delete[idx - 1]

\* The loop is between two candidates, or over, and has processed one.
BetweenCandidates == pc \in {"purge", "idle"} /\ idx > 1 /\ Len(log) > 0

\* C2: a liveaction document leaves the store only in the liveaction delete
\* of the candidate whose execution document is already gone; that delete is
\* entered only with the execution deleted; and a failed execution delete
\* goes on to the next candidate with the liveaction collection as it was.
C2_ChildOnlyAfterParent ==
    [][/\ liveactions' # liveactions =>
            /\ pc = "delete_liveaction"
            /\ execution_db.id \notin DOMAIN executions
            /\ liveactions \ liveactions' = {execution_db.liveaction.id}
       /\ pc' = "delete_liveaction" => execution_db'.id \notin DOMAIN executions'
       /\ (pc = "delete_execution" /\ executions' = executions) =>
            /\ pc' = "purge"
            /\ idx' = idx + 1
            /\ liveactions' = liveactions]_vars

\* C2: an execution delete has failed for a candidate whose liveaction was
\* found; the liveaction is in the store and no delete of it was called.
C2_Witness ==
    /\ BetweenCandidates
    /\ LastCall = <<"ActionExecution.delete", Processed.id, FALSE>>
    /\ CallsOf("LiveAction.get_by_id", Processed.id, TRUE) # {}
    /\ Processed.liveaction.id \in liveactions
    /\ Processed.id \in DOMAIN executions

\* C3 as claimed: once the list is built no exception leaves the run, and a
\* run that returned has called the execution delete for every candidate.
C3_NoExceptionEscapes ==
    ListBuilt =>
        /\ pc # "raised"
        /\ RunReturned =>
              \A i \in DOMAIN executions_to_delete :
                  \E ok \in BOOLEAN :
                      CallsOf("ActionExecution.delete", executions_to_delete[i].id, ok) # {}

\* C6 as claimed: a candidate whose execution delete failed has added nothing
\* to the deleted count.
C6_FailedDeleteCountsNothing ==
    (BetweenCandidates /\ LastCall = <<"ActionExecution.delete", Processed.id, FALSE>>)
        => DELETED_COUNT = count_at_entry

\* C7: a candidate whose liveaction delete failed has its execution deleted by
\* one successful call, one liveaction delete call and no more, one zombie
\* line in the log, its liveaction still in the store, and, as the loop moves
\* on from it, has added exactly one to the deleted count.
C7_ZombieCountedOnce ==
    /\ \A i \in DOMAIN executions_to_delete :
          LET c == executions_to_delete[i]
          IN CallsOf("LiveAction.delete", c.id, FALSE) # {} =>
                /\ Cardinality(CallsOf("ActionExecution.delete", c.id, TRUE)) = 1
                /\ CallsOf("ActionExecution.delete", c.id, FALSE) = {}
                /\ Cardinality(CallsOf("LiveAction.delete", c.id, FALSE)) = 1
                /\ CallsOf("LiveAction.delete", c.id, TRUE) = {}
                /\ Cardinality(LogsOf("zombie_liveaction", c.id)) = 1
                /\ c.id \notin DOMAIN executions
                /\ c.liveaction.id \in liveactions
    /\ (BetweenCandidates /\ LastCall = <<"LiveAction.delete", Processed.id, FALSE>>)
          => DELETED_COUNT = count_at_entry + 1

\* C7: the loop has moved on from a candidate whose liveaction delete failed.
C7_Witness ==
    /\ BetweenCandidates
    /\ LastCall = <<"LiveAction.delete", Processed.id, FALSE>>
    /\ Processed.liveaction.id \in liveactions
    /\ Processed.id \notin DOMAIN executions

\* C8 as claimed: a candidate without a liveaction id, or whose id no
\* liveaction document has, whose execution delete succeeded has added one to
\* the deleted count, had no liveaction delete called and left no zombie.
C8_MissingChildCountedAsDeleted ==
    (/\ BetweenCandidates
     /\ LastCall = <<"ActionExecution.delete", Processed.id, TRUE>>
     /\ Processed.liveaction.id \notin liveactions)
        => /\ Processed.id \notin DOMAIN executions
           /\ DELETED_COUNT = count_at_entry + 1
           /\ \A ok \in BOOLEAN : CallsOf("LiveAction.delete", Processed.id, ok) = {}
           /\ LogsOf("zombie_liveaction", Processed.id) = {}

\* C9 as claimed: a run that returned, all of whose store calls succeeded
\* (so every candidate's liveaction was found), has removed every candidate's
\* execution and liveaction and logged the list's length as the number of
\* candidates and as the number deleted.
C9_AllSucceedReportsN ==
    (/\ RunReturned
     /\ ListBuilt
     /\ \A i \in DOMAIN calls : calls[i][3])
        => /\ \A i \in DOMAIN executions_to_delete :
                /\ executions_to_delete[i].id \notin DOMAIN executions
                /\ executions_to_delete[i].liveaction.id \notin liveactions
           /\ log[2] = <<"info", "total_to_delete", Len(executions_to_delete)>>
           /\ log[Len(log)] = <<"info", "total_deleted", Len(executions_to_delete)>>

----------------------------------------------------------------------------
\* purge_executions beside another process that writes execution statuses.

\* Documents older than the cutoff, of any status, with their liveaction.
WritableDocs(e) ==
    [id : {e}, status : Statuses, start_timestamp : {0}, end_timestamp : {0},
     liveaction : [null : {FALSE}, id : {LiveactionIdOf(e)}, action : {"core.local"}]]

InitWriter ==
    /\ executions \in [ExecIds -> UNION {WritableDocs(e) : e \in ExecIds}]
    /\ \A e \in ExecIds : executions[e].id = e
    /\ liveactions = LiveactionIds
    /\ NoRunYet
    /\ main_pc = "direct"
    /\ connection = "none"
    /\ exit_code = "running"
    /\ NoValidate

\* Another process saves a new status of an execution that is in the store,
\* while a run is between its query (line 123) and its return (line 133).
writer_update(e, status) ==
    /\ pc \notin {"idle", "raised"}
    /\ e \in DOMAIN executions
    /\ executions[e].status # status
    /\ executions' = [executions EXCEPT ![e].status = status]
    /\ written' = {w \in written : w[1] # e} \cup {<<e, status>>}
    /\ UNCHANGED <<liveactions, DELETED_COUNT, pc, timestamp, action_ref,
                   executions_to_delete, idx, liveaction_db, log, calls,
                   selected_from, count_at_entry, rerun, main_vars, rbac_vars>>

NextWriter ==
    \/ /\ main_pc = "direct"
       /\ \E ts \in {MaxTime}, ref \in ActionRefs : purge_executions_select(ts, ref)
       /\ written' = {}
       /\ UNCHANGED <<main_vars, rbac_vars>>
    \/ /\ \E ok \in BOOLEAN : purge_models_lookup(ok)
       /\ UNCHANGED <<main_vars, rbac_vars, written>>
    \/ /\ \E ok \in BOOLEAN : purge_models_delete_execution(ok)
       /\ UNCHANGED <<main_vars, rbac_vars, written>>
    \/ /\ \E ok \in BOOLEAN : purge_models_delete_liveaction(ok)
       /\ UNCHANGED <<main_vars, rbac_vars, written>>
    \/ /\ purge_executions_report
       /\ UNCHANGED <<main_vars, rbac_vars, written>>
    \/ \E e \in ExecIds, status \in Statuses : writer_update(e, status)

SpecWriter == InitWriter /\ [][NextWriter]_vars

----------------------------------------------------------------------------
\* st2common/models/api/rbac.py: RoleDefinitionFileFormatAPI.validate.

\* PermissionType.get_valid_values(), the enum of the schema (line 112).
PermissionTypes == {"pack_view", "action_execute", "action_list"}

\* GLOBAL_PERMISSION_TYPES (line 152): the types that need no resource.
GLOBAL_PERMISSION_TYPES == {"action_list"}

\* PermissionType.get_valid_permissions_for_resource_type (line 140).
get_valid_permissions_for_resource_type(resource_type) ==
    IF resource_type = "pack" THEN {"pack_view"}
    ELSE IF resource_type = "action" THEN {"action_execute", "action_list"}
    ELSE {}

\* A grant's resource_uid: the key is absent, or it is the string
\* '<type>:<ref>', the empty string being the one with no type and no ref;
\* "none" is the None the schema's default puts for an absent key.
AbsentUid == [kind |-> "absent", type |-> "", ref |-> ""]

NoneUid == [kind |-> "none", type |-> "", ref |-> ""]

ResourceUids ==
    {AbsentUid,
     [kind |-> "str", type |-> "", ref |-> ""],
     [kind |-> "str", type |-> "pack", ref |-> "examples"],
     [kind |-> "str", type |-> "action", ref |-> "examples.run"]}

\* The permission grants the schema accepts (lines 95-118): the permission
\* types are unique and of the enum.
PermissionGrants ==
    [resource_uid : ResourceUids, permission_types : SUBSET PermissionTypes]

\* Line 137: `if resource_uid` is false for None and for ''.
Truthy(resource_uid) ==
    resource_uid.kind = "str" /\ (resource_uid.type # "" \/ resource_uid.ref # "")

\* Line 139: parse_uid splits '<type>:<ref>'.
parse_uid(uid) == <<uid.type, uid.ref>>

\* Line 127: the schema validation of BaseAPI returns the definition with the
\* schema's defaults filled in (line 101: resource_uid defaults to None).
base_validate(grants) ==
    [i \in DOMAIN grants |->
        IF grants[i].resource_uid.kind = "absent"
        THEN [grants[i] EXCEPT !.resource_uid = NoneUid]
        ELSE grants[i]]

\* Lines 134-157 for one grant: some permission type raises ValueError.
grant_raises(permission_grant) ==
    LET resource_uid == permission_grant.resource_uid
        permission_types == permission_grant.permission_types
    IN IF Truthy(resource_uid)
       THEN LET resource_type == parse_uid(resource_uid)[1]
                valid_permission_types ==
                    get_valid_permissions_for_resource_type(resource_type)
            IN \E permission_type \in permission_types :
                   permission_type \notin valid_permission_types
       ELSE \E permission_type \in permission_types :
                permission_type \notin GLOBAL_PERMISSION_TYPES

\* Line 133: the for loop from grant i on; TRUE if it raises.
RECURSIVE grants_raise(_, _)
grants_raise(grants, i) ==
    IF i > Len(grants) THEN FALSE
    ELSE IF grant_raises(grants[i]) THEN TRUE
    ELSE grants_raise(grants, i + 1)

\* validate checking the grants that name a resource only.
validate_resource_grants_only(grants) ==
    LET cleaned == base_validate(grants)
    IN IF \E i \in DOMAIN grants :
              Truthy(grants[i].resource_uid) /\ grant_raises(grants[i])
       THEN [status |-> "ValueError", value |-> <<>>]
       ELSE [status |-> "returned", value |-> cleaned]

\* Lines 125-159.
validate(grants) ==
    LET cleaned == base_validate(grants)
    IN IF grants_raise(grants, 1)
       THEN [status |-> "ValueError", value |-> <<>>]
       ELSE [status |-> "returned", value |-> cleaned]

\* The role definitions that pass the schema, with up to MaxGrants grants.
InitRbac ==
    /\ executions = <<>>
    /\ liveactions = {}
    /\ NoRunYet
    /\ main_pc = "direct"
    /\ connection = "none"
    /\ exit_code = "running"
    /\ permission_grants \in UNION {[1..n -> PermissionGrants] : n \in 0..MaxGrants}
    /\ validate_result = Pending

\* A call of validate on the definition.
rbac_validate ==
    /\ validate_result = Pending
    /\ validate_result' = validate(permission_grants)
    /\ UNCHANGED <<executions, liveactions, DELETED_COUNT, pc, timestamp, action_ref,
                   executions_to_delete, idx, liveaction_db, log, calls,
                   selected_from, count_at_entry, rerun, main_vars, written,
                   permission_grants>>

NextRbac == rbac_validate

SpecRbac == InitRbac /\ [][NextRbac]_vars

----------------------------------------------------------------------------
\* The current call, direct or through main, found the timestamp absent.
TimestampAbsent ==
    \/ exit_code = "returned 1"
    \/ Len(log) > 0 /\ log[1][2] = "specify_valid_timestamp"

\* C11 as claimed: when the timestamp is absent no connection has been set
\* up, no store call has been made and no document has been deleted, through
\* main as through a direct call.
C11_AbortsBeforeConnection ==
    TimestampAbsent =>
        /\ connection = "none"
        /\ calls = <<>>
        /\ executions = selected_from

\* C11 as amended: when the timestamp is absent no store call has been made
\* and no document has been deleted; a direct call has set up no connection,
\* main has, since common_setup comes before the test of the timestamp.
C11_AbortsBeforeQuery ==
    TimestampAbsent =>
        /\ calls = <<>>
        /\ executions = selected_from
        /\ main_pc = "direct" => connection = "none"
        /\ exit_code = "returned 1" => connection # "none"

\* C11: main has returned 1 for the absent timestamp, with a store that holds
\* documents a run would delete.
C11_Witness ==
    /\ exit_code = "returned 1"
    /\ \E e \in DOMAIN executions :
          ~InProgress(executions[e]) /\ ~executions[e].liveaction.null

\* The query of the current run failed.
QueryFailed == calls # <<>> /\ calls[1] = <<"ActionExecution.query", None, FALSE>>

\* C12: a run whose query failed has aborted with no document deleted, no
\* further store call and no count reported; and a run that has aborted did
\* so at its query or while it built the candidate list, never later.
C12_OnlyQueryFailureAborts ==
    /\ QueryFailed =>
          /\ pc = "raised"
          /\ executions = selected_from
          /\ Len(calls) = 1
          /\ \A i \in DOMAIN log : log[i][2] # "total_deleted"
    /\ pc = "raised" => ~ListBuilt

\* C13: whenever main has ended, by a return or by an exception, a
\* connection that common_setup opened has been closed by common_teardown.
C13_TeardownOnEveryExit ==
    main_pc = "exited" => connection # "open"

\* C14: main returns 1 exactly if the timestamp is absent; and when it has
\* ended with a timestamp and a candidate list (the abort of C12, at the query
\* or while the list is built, left aside), it went through the whole list,
\* logged the count and returned success.
C14_FailureOnlyWithoutTimestamp ==
    main_pc = "exited" =>
        /\ exit_code = "returned 1" <=> timestamp = NoTimestamp
        /\ ListBuilt =>
              /\ exit_code = "returned None"
              /\ idx > Len(executions_to_delete)
              /\ log[Len(log)][2] = "total_deleted"

\* C15: the deleted count is zero when a run has just selected, and the count
\* a run reports is not larger than the number of candidates it handled.
C15_CountIsPerRun ==
    /\ (pc = "purge" /\ idx = 1) => DELETED_COUNT = 0
    /\ (RunReturned /\ ListBuilt) =>
          log[Len(log)][3] <= Len(executions_to_delete)

\* What lines 122-125 select from a collection, said without the code's
\* operators: terminal, both timestamps before the cutoff, and the action of
\* the filter if there is one.
EligibleIn(store) ==
    {e \in DOMAIN store :
        /\ ~InProgress(store[e])
        /\ store[e].end_timestamp < timestamp
        /\ store[e].start_timestamp < timestamp
        /\ ~FilterExcludes(store[e])}

\* The delete calls of the current run.
DeleteCalls ==
    {i \in DOMAIN calls : calls[i][1] \in {"ActionExecution.delete", "LiveAction.delete"}}

\* C16: a step changes the store only after the candidate list was built,
\* every delete call comes after the query, and from its selection to its
\* end a run's list stays what the selection made it: the eligible documents
\* of the collection as the query read it.
C16_ListFixedBeforeMutation ==
    [][/\ (executions' # executions \/ liveactions' # liveactions) => ListBuilt
       /\ DeleteCalls' # {} =>
             /\ ListBuilt
             /\ calls'[1][1] = "ActionExecution.query"
             /\ \A i \in DeleteCalls' : i > 1
       /\ pc # "idle" =>
             /\ executions_to_delete' = executions_to_delete
             /\ selected_from' = selected_from
       /\ ListBuilt' => Candidates' = EligibleIn(selected_from)']_vars

\* C16: the run has deleted its first candidate and is about to handle the
\* second, which is still in the store and in the list.
C16_Witness ==
    /\ pc = "purge"
    /\ idx = 2
    /\ Len(executions_to_delete) = 2
    /\ executions_to_delete[1].id \notin DOMAIN executions
    /\ executions_to_delete[2].id \in DOMAIN executions

\* C18: a step removes an execution only if it is in the candidate list and
\* a liveaction only if a candidate references it by id; it adds and alters
\* no document; and a selection leaves both collections as they are.
C18_OnlyCandidatesAndChildren ==
    [][/\ \A e \in DOMAIN executions \ DOMAIN executions' : e \in Candidates
       /\ \A e \in DOMAIN executions' :
             e \in DOMAIN executions /\ executions'[e] = executions[e]
       /\ \A l \in liveactions \ liveactions' :
             \E i \in DOMAIN executions_to_delete :
                 executions_to_delete[i].liveaction.id = l
       /\ liveactions' \subseteq liveactions
       /\ pc = "idle" => executions' = executions /\ liveactions' = liveactions]_vars

\* C18: a run has returned that deleted a candidate and its liveaction and
\* left an execution that was no candidate, with its liveaction, in the store.
C18_Witness ==
    /\ RunReturned
    /\ \E i \in DOMAIN executions_to_delete :
          /\ executions_to_delete[i].id \notin DOMAIN executions
          /\ CallsOf("LiveAction.delete", executions_to_delete[i].id, TRUE) # {}
    /\ \E e \in DOMAIN executions \ Candidates :
          /\ executions[e] = selected_from[e]
          /\ executions[e].liveaction.id \in liveactions

\* C17: beside a writer of statuses, a run takes every candidate to its
\* ActionExecution.delete call whatever the store now says of it, and a call
\* that succeeds removes the document; and a step removes no execution that
\* was in progress when the run selected.
C17_EligibilityAtSelectionOnly ==
    [][/\ (pc = "purge" /\ idx <= Len(executions_to_delete) /\ pc' # pc) =>
             pc' = "delete_execution" /\ idx' = idx
       /\ (pc = "delete_execution" /\ pc' # pc) =>
             \E ok \in BOOLEAN :
                 /\ calls' = Append(calls, <<"ActionExecution.delete", execution_db.id, ok>>)
                 /\ ok => execution_db.id \notin DOMAIN executions'
       /\ \A e \in DOMAIN executions \ DOMAIN executions' :
             ~InProgress(selected_from[e])]_vars

\* C17: a run has returned that deleted a candidate whose status the writer
\* had made in-progress after the selection, and kept an execution that was
\* in progress at the selection and that the writer has made terminal since.
C17_Witness ==
    /\ RunReturned
    /\ \E e \in Candidates :
          /\ e \notin DOMAIN executions
          /\ \E st \in IN_PROGRESS_STATES : <<e, st>> \in written
    /\ \E e \in DOMAIN executions :
          /\ InProgress(selected_from[e])
          /\ ~InProgress(executions[e])
          /\ <<e, executions[e].status>> \in written

\* The grant lists a permission type that is not valid for it.
HasInvalidType(g) ==
    IF g.resource_uid.kind = "str" /\ g.resource_uid # [kind |-> "str", type |-> "", ref |-> ""]
    THEN g.permission_types
             \ get_valid_permissions_for_resource_type(g.resource_uid.type) # {}
    ELSE g.permission_types \ GLOBAL_PERMISSION_TYPES # {}

\* C19: validate has raised ValueError exactly if some grant lists a
\* permission type not valid for it (for the resource type of its uid, or
\* globally if it has no uid); otherwise it has returned the cleaned value.
C19_RejectsExactlyInvalidTypes ==
    validate_result # Pending =>
        LET invalid == \E i \in DOMAIN permission_grants :
                           HasInvalidType(permission_grants[i])
        IN /\ validate_result.status = "ValueError" <=> invalid
           /\ ~invalid =>
                 /\ validate_result.status = "returned"
                 /\ validate_result.value = base_validate(permission_grants)

\* C19: validate has raised for a definition whose first grant, on a
\* resource, is valid and whose second, without resource_uid, lists a type
\* that is not global.
C19_Witness ==
    /\ validate_result.status = "ValueError"
    /\ Len(permission_grants) = 2
    /\ permission_grants[1].resource_uid.type = "action"
    /\ permission_grants[1].permission_types = {"action_execute"}
    /\ permission_grants[2].resource_uid = AbsentUid
    /\ permission_grants[2].permission_types = {"action_list", "pack_view"}

====
